---------------------------- MODULE Spec2Model ----------------------------
(***************************************************************************)
(* A model of lib/viber-client.js: the ViberClient object, its six API     *)
(* methods, the dispatcher _sendRequest and the two callbacks it hangs on  *)
(* the transport's promise.  The logger is a side channel that no branch   *)
(* of the code reads, and it has no part in the state.                     *)
(*                                                                         *)
(* JavaScript values are tagged records.  A string is a sequence of text   *)
(* tokens (the model's characters), so that concatenation, indexOf, split, *)
(* URL parsing and JSON text are computed and not assumed.                 *)
(***************************************************************************)
EXTENDS Integers, Sequences, FiniteSets, TLC

VARIABLES
    bot,          \* this._bot: {name, avatar, authToken}
    url,          \* this._url
    subscribedEvents,  \* this._subscribedEvents
    userAgent,    \* this._userAgent
    endpoints,    \* the module-level API_ENDPOINTS object
    env,          \* process.env: HTTP_PROXY, HTTPS_PROXY, NO_PROXY
    calls         \* one record per call slot: the call made there and how far it got

vars == <<bot, url, subscribedEvents, userAgent, endpoints, env, calls>>

(***************************************************************************)
(* Bounds of the model.                                                    *)
(***************************************************************************)
\* calls that may be in flight at once, under Spec
MaxCalls == 2
\* calls that may be in flight at once, under SpecApi, SpecMessage and SpecProxy
MaxApiCalls == 1

(***************************************************************************)
(* JavaScript values.                                                      *)
(***************************************************************************)
Undefined == [t |-> "undefined"]
Null == [t |-> "null"]
True == [t |-> "boolean", b |-> TRUE]
Str(s) == [t |-> "string", s |-> s]
Obj(o) == [t |-> "object", o |-> o]
Arr(a) == [t |-> "array", a |-> a]
Num(n) == [t |-> "number", n |-> n]
Error(msg, origin) == [t |-> "error", message |-> msg, origin |-> origin]

EmptyObject == Obj(<<>>)

\* ToBoolean: what `!x`, `x && y`, `x || y` and `x ? a : b` test
Truthy(v) ==
    CASE v.t = "undefined" -> FALSE
      [] v.t = "null" -> FALSE
      [] v.t = "boolean" -> v.b
      [] v.t = "string" -> v.s # <<>>
      [] v.t = "number" -> v.n # 0
      [] OTHER -> TRUE

\* a || b
Or(a, b) == IF Truthy(a) THEN a ELSE b

\* Object.assign(target, source): own keys of source overwrite those of
\* target; a source that is undefined or null is skipped
ObjectAssign(target, source) ==
    IF source.t # "object" THEN target
    ELSE Obj([k \in (DOMAIN target.o) \cup (DOMAIN source.o) |->
                 IF k \in DOMAIN source.o THEN source.o[k] ELSE target.o[k]])

\* value.key: undefined where value has no such property
Prop(v, key) == IF v.t = "object" /\ key \in DOMAIN v.o THEN v.o[key] ELSE Undefined

\* the `in` operator in place of _.has: inherited properties count as keys
HasInherited(obj, key) == key \in (DOMAIN obj) \cup {"toString", "constructor"}

\* _.has(obj, key): own property
Has(obj, key) == key \in DOMAIN obj

\* obj[key]: undefined for a missing key, which %s prints as "undefined"
Lookup(obj, key) == IF key \in DOMAIN obj THEN obj[key] ELSE <<"undefined">>

\* _.isArray, _.isEmpty, _.size
IsArray(v) == v.t = "array"

IsEmpty(v) ==
    CASE v.t = "string" -> v.s = <<>>
      [] v.t = "array" -> v.a = <<>>
      [] v.t = "object" -> DOMAIN v.o = {}
      [] OTHER -> TRUE

Size(v) == IF v.t = "array" THEN Len(v.a) ELSE 0

(***************************************************************************)
(* Text: formatting, searching, splitting.                                 *)
(***************************************************************************)
\* util.format("%s%s", a, b)
Format2(a, b) == a \o b

\* String.prototype.indexOf: the first 0-based position of sub in s, or -1
IndexOf(s, sub) ==
    LET at == {i \in 0..(Len(s) - Len(sub)) : SubSeq(s, i + 1, i + Len(sub)) = sub}
    IN IF at = {} THEN -1 ELSE CHOOSE i \in at : \A j \in at : i <= j

RECURSIVE SplitFrom(_, _, _)
\* the pieces of s between separator tokens, cur being the piece read so far
SplitFrom(s, sep, cur) ==
    IF s = <<>> THEN <<cur>>
    ELSE IF Head(s) = sep THEN <<cur>> \o SplitFrom(Tail(s), sep, <<>>)
    ELSE SplitFrom(Tail(s), sep, Append(cur, Head(s)))

\* String.prototype.split(sep)
Split(s, sep) == SplitFrom(s, sep, <<>>)

(***************************************************************************)
(* new URL(text): the WHATWG parse of  scheme // [user[:password] @] host  *)
(* [: port]  over the tokens  "http:" "//" "user" ":" "pw" "@" "host" ":"  *)
(* "8080".  A text without a scheme is not a URL and the constructor       *)
(* throws a TypeError; a port that is the scheme's default reads back as   *)
(* the empty string.                                                       *)
(***************************************************************************)
Schemes == {"http:", "https:"}

DefaultPort(scheme) == IF scheme = "http:" THEN <<"80">> ELSE <<"443">>

InvalidURL ==
    [ok |-> FALSE, protocol |-> <<>>, username |-> <<>>, password |-> <<>>,
     hostname |-> <<>>, port |-> <<>>]

ParseURL(s) ==
    IF Len(s) < 3 \/ s[1] \notin Schemes \/ s[2] # "//" THEN InvalidURL
    ELSE
        LET authority == SubSeq(s, 3, Len(s))
            at == IndexOf(authority, <<"@">>)
            userinfo == IF at = -1 THEN <<>> ELSE SubSeq(authority, 1, at)
            hostport == IF at = -1 THEN authority
                        ELSE SubSeq(authority, at + 2, Len(authority))
            colon == IndexOf(userinfo, <<":">>)
            hp == Split(hostport, ":")
        IN  IF Len(hp) > 2 \/ Len(hp[1]) # 1 \/ (Len(hp) = 2 /\ Len(hp[2]) # 1)
            THEN InvalidURL
            ELSE [ok |-> TRUE,
                  protocol |-> <<s[1]>>,
                  username |-> IF colon = -1 THEN userinfo
                               ELSE SubSeq(userinfo, 1, colon),
                  password |-> IF colon = -1 THEN <<>>
                               ELSE SubSeq(userinfo, colon + 2, Len(userinfo)),
                  hostname |-> hp[1],
                  port |-> IF Len(hp) = 1 \/ hp[2] = DefaultPort(s[1]) THEN <<>>
                           ELSE hp[2]]

(***************************************************************************)
(* JSON.stringify and JSON.parse over strings, null and objects.  The      *)
(* members of an object are written in the order of KeyOrder, members      *)
(* whose value is undefined are left out, and JSON.stringify(undefined) is *)
(* undefined, not a string.                                                *)
(***************************************************************************)
Quote == "\""

KeyOrder == <<"a", "b">>

RECURSIVE JSONText(_)
RECURSIVE JSONMembers(_, _, _)

\* the members of object o for the keys ks, first telling whether a comma is due
JSONMembers(o, ks, first) ==
    IF ks = <<>> THEN <<>>
    ELSE IF Head(ks) \notin DOMAIN o \/ o[Head(ks)].t = "undefined"
         THEN JSONMembers(o, Tail(ks), first)
         ELSE (IF first THEN <<>> ELSE <<",">>)
              \o <<Quote, Head(ks), Quote, ":">> \o JSONText(o[Head(ks)])
              \o JSONMembers(o, Tail(ks), FALSE)

JSONText(v) ==
    CASE v.t = "string" -> <<Quote>> \o v.s \o <<Quote>>
      [] v.t = "null" -> <<"null">>
      [] v.t = "object" -> <<"{">> \o JSONMembers(v.o, KeyOrder, TRUE) \o <<"}">>
      [] OTHER -> <<"null">>

JSONStringify(v) == IF v.t = "undefined" THEN Undefined ELSE Str(JSONText(v))

ParseFail == [ok |-> FALSE, v |-> Undefined, rest |-> <<>>]

RECURSIVE ParseValue(_)
RECURSIVE ParseMembers(_, _)

ParseMembers(ts, acc) ==
    IF ts = <<>> THEN ParseFail
    ELSE IF Head(ts) = "}" THEN [ok |-> TRUE, v |-> Obj(acc), rest |-> Tail(ts)]
    ELSE IF Head(ts) = "," THEN ParseMembers(Tail(ts), acc)
    ELSE LET k == ParseValue(ts)
         IN  IF ~k.ok \/ k.v.t # "string" THEN ParseFail
             ELSE IF Len(k.v.s) # 1 \/ k.rest = <<>> \/ Head(k.rest) # ":" THEN ParseFail
             ELSE LET val == ParseValue(Tail(k.rest))
                  IN  IF ~val.ok THEN ParseFail
                      ELSE ParseMembers(val.rest, (k.v.s[1] :> val.v) @@ acc)

ParseValue(ts) ==
    IF ts = <<>> THEN ParseFail
    ELSE IF Head(ts) = "null" THEN [ok |-> TRUE, v |-> Null, rest |-> Tail(ts)]
    ELSE IF Head(ts) = Quote
         THEN LET n == IndexOf(Tail(ts), <<Quote>>)
              IN  IF n = -1 THEN ParseFail
                  ELSE [ok |-> TRUE, v |-> Str(SubSeq(Tail(ts), 1, n)),
                        rest |-> SubSeq(Tail(ts), n + 2, Len(Tail(ts)))]
    ELSE IF Head(ts) = "{" THEN ParseMembers(Tail(ts), <<>>)
    ELSE ParseFail

\* JSON.parse(text): the value, or undefined where the text is no JSON
JSONParse(text) ==
    LET r == ParseValue(text)
    IN  IF r.ok /\ r.rest = <<>> THEN r.v ELSE Undefined

(***************************************************************************)
(* Module constants.                                                       *)
(***************************************************************************)
VIBER_AUTH_TOKEN_HEADER == "X-Viber-Auth-Token"

MAX_GET_ONLINE_IDS == 100

API_ENDPOINTS ==
    [setWebhook |-> <<"/set_webhook">>,
     getAccountInfo |-> <<"/get_account_info">>,
     getUserDetails |-> <<"/get_user_details">>,
     getOnlineStatus |-> <<"/get_online">>,
     sendMessage |-> <<"/send_message">>,
     post |-> <<"/post">>]

(***************************************************************************)
(* A call: the method called and its arguments, how it ended for the       *)
(* caller (st), where in the code it ended (phase), and what it handed to  *)
(* the dispatcher and to the transport on the way.                         *)
(*   st:    "idle"      no call made in this slot                          *)
(*          "threw"     the method threw synchronously                     *)
(*          "pending"   the method returned a promise not yet settled      *)
(*          "resolved", "rejected"   the returned promise is settled       *)
(*   phase: "validation" | "endpoint" | "proxy" | "transport"              *)
(* envSeen and response are history: the environment at the moment of the  *)
(* call and what the transport answered.                                   *)
(***************************************************************************)
NoCall ==
    [method |-> "none", args |-> <<>>, st |-> "idle", phase |-> "none",
     err |-> Undefined, value |-> Undefined,
     delegated |-> FALSE, op |-> "", payload |-> Undefined,
     options |-> Undefined, posts |-> 0, settles |-> 0,
     response |-> Undefined, envSeen |-> Undefined]

NewCall(method, args) == [NoCall EXCEPT !.method = method, !.args = args, !.envSeen = env]

\* a rejected promise returned where the code throws
ThrowAsRejection(call, e, phase) ==
    [call EXCEPT !.st = "rejected", !.err = e, !.phase = phase, !.settles = 1]

\* throw e
Throw(call, e, phase) == [call EXCEPT !.st = "threw", !.err = e, !.phase = phase]

\* return Promise.reject(e)
PromiseReject(call, e, phase) ==
    [call EXCEPT !.st = "rejected", !.err = e, !.phase = phase, !.settles = 1]

\* resolve(v) and reject(e) of the promise built at line 162: the first of
\* them to be called settles the promise, a later one changes nothing
Resolve(call, v) ==
    IF call.st = "pending"
    THEN [call EXCEPT !.st = "resolved", !.value = v, !.settles = @ + 1]
    ELSE [call EXCEPT !.settles = @ + 1]

Reject(call, e) ==
    IF call.st = "pending"
    THEN [call EXCEPT !.st = "rejected", !.err = e, !.settles = @ + 1]
    ELSE [call EXCEPT !.settles = @ + 1]

(***************************************************************************)
(* _sendRequest, lines 112-161: the endpoint check, the envelope, the      *)
(* proxy decision, and the one got.post the promise's executor makes.      *)
(***************************************************************************)
RECURSIVE NoProxyLoopLastWins(_, _, _, _)
\* the flag assigned on every round, so that the last element decides
NoProxyLoopLastWins(u, noProxyEnv, i, noProxy) ==
    IF i >= Len(noProxyEnv) THEN noProxy
    ELSE NoProxyLoopLastWins(u, noProxyEnv, i + 1, IndexOf(u, noProxyEnv[i + 1]) # -1)

RECURSIVE NoProxyLoop(_, _, _, _)
\* lines 135-139: for (i = 0; i < noProxyEnv.length; i += 1)
NoProxyLoop(u, noProxyEnv, i, noProxy) ==
    IF i >= Len(noProxyEnv) THEN noProxy
    ELSE NoProxyLoop(u, noProxyEnv, i + 1,
                     IF IndexOf(u, noProxyEnv[i + 1]) # -1 THEN TRUE ELSE noProxy)

\* lines 143-154
ProxyAgentOptions(proxyURL) ==
    [proxy |-> [protocol |-> Str(proxyURL.protocol),
                hostname |-> Str(proxyURL.hostname),
                port |-> Str(proxyURL.port),
                username |-> Null,
                password |-> Null],
     maxFreeSockets |-> 256, maxSockets |-> 256, keepAlive |-> TRUE]

\* lines 155-158
ProxyAgents(proxyURL) ==
    [http |-> [kind |-> "HttpProxyAgent", opts |-> ProxyAgentOptions(proxyURL)],
     https |-> [kind |-> "HttpsProxyAgent", opts |-> ProxyAgentOptions(proxyURL)]]

\* line 118
DataWithAuthToken(data) == ObjectAssign(Obj([auth_token |-> bot.authToken]), data)

\* lines 120-128
Options(u, data) ==
    [url |-> u,
     json |-> DataWithAuthToken(data),
     responseType |-> "json",
     headers |-> (VIBER_AUTH_TOKEN_HEADER :> bot.authToken) @@ ("User-Agent" :> userAgent),
     agent |-> Undefined]

\* lines 162-163: the executor runs at once and calls got.post(options)
Post(call, options) ==
    [call EXCEPT !.st = "pending", !.phase = "transport", !.options = options,
                 !.posts = @ + 1]

_sendRequest(call, endpoint, data) ==
    LET c0 == [call EXCEPT !.delegated = TRUE, !.op = endpoint, !.payload = data]
    IN
    IF ~Has(endpoints, endpoint)
    THEN PromiseReject(c0, Error(<<"could not find endpoint ", endpoint>>, "client"),
                       "endpoint")
    ELSE
        LET u == Format2(url, Lookup(endpoints, endpoint))
            options == Options(u, data)
            proxyEnv == Or(env.HTTP_PROXY, env.HTTPS_PROXY)
            noProxyEnv == IF Truthy(env.NO_PROXY) THEN Arr(Split(env.NO_PROXY.s, ","))
                          ELSE Str(<<>>)
            noProxy == IF Truthy(noProxyEnv) THEN NoProxyLoop(u, noProxyEnv.a, 0, FALSE)
                       ELSE FALSE
        IN
        IF Truthy(proxyEnv) /\ ~noProxy
        THEN LET proxyURL == ParseURL(proxyEnv.s)
             IN  IF ~proxyURL.ok
                 THEN Throw(c0, Error(<<"Invalid URL">>, "URL"), "proxy")
                 ELSE Post(c0, [options EXCEPT !.agent = ProxyAgents(proxyURL)])
        ELSE Post(c0, options)

(***************************************************************************)
(* The callbacks on got.post's promise, lines 163-172.                     *)
(***************************************************************************)
\* every 2xx status taken for success
OnFulfilledAny2xx(call, statusCode, body) ==
    IF statusCode < 200 \/ statusCode > 299
    THEN Reject(call, Error(<<"Response error">>, "client"))
    ELSE Resolve(call, body)

\* .then(({ statusCode, body }) => ...)
OnFulfilled(call, statusCode, body) ==
    IF statusCode # 200
    THEN Reject(call, Error(<<"Response error">>, "client"))
    ELSE Resolve(call, body)

\* .catch(e => ...)
OnRejected(call, e) == Reject(call, e)

(***************************************************************************)
(* The API surface, lines 29-110 and 176-182.                              *)
(***************************************************************************)
_serializeTrackingData(optionalTrackingData) ==
    JSONStringify(IF optionalTrackingData.t \in {"null", "undefined"}
                     \/ IsEmpty(optionalTrackingData)
                  THEN Str(<<>>)
                  ELSE optionalTrackingData)

setWebhook(call, webhookUrl, isInline) ==
    _sendRequest(call, "setWebhook",
                 Obj([url |-> webhookUrl, is_inline |-> isInline,
                      event_types |-> subscribedEvents]))

\* the first check looking at the receiver alone
sendMessageInvalidReceiverOnly(optionalReceiver, messageType, messageData, optionalKeyboard, optionalChatId) ==
    IF ~Truthy(optionalReceiver)
    THEN <<"Invalid arguments passed to sendMessage. ",
           "'optionalReceiver' and 'chatId' are Missing.">>
    ELSE IF Truthy(messageType) /\ ~Truthy(messageData)
    THEN <<"Invalid arguments passed to sendMessage. ", "'MessageData' is Missing.">>
    ELSE IF ~Truthy(messageType) /\ ~Truthy(messageData) /\ ~Truthy(optionalKeyboard)
    THEN <<"Invalid arguments passed to sendMessage. ",
           "'MessageData','messageType' are Missing and there's no keyboard.">>
    ELSE <<>>

\* lines 39-49: the message of the error the arguments earn, none when they pass
sendMessageInvalid(optionalReceiver, messageType, messageData, optionalKeyboard, optionalChatId) ==
    IF ~Truthy(optionalReceiver) /\ ~Truthy(optionalChatId)
    THEN <<"Invalid arguments passed to sendMessage. ",
           "'optionalReceiver' and 'chatId' are Missing.">>
    ELSE IF Truthy(messageType) /\ ~Truthy(messageData)
    THEN <<"Invalid arguments passed to sendMessage. ", "'MessageData' is Missing.">>
    ELSE IF ~Truthy(messageType) /\ ~Truthy(messageData) /\ ~Truthy(optionalKeyboard)
    THEN <<"Invalid arguments passed to sendMessage. ",
           "'MessageData','messageType' are Missing and there's no keyboard.">>
    ELSE <<>>

sendMessage(call, optionalReceiver, messageType, messageData, optionalTrackingData, optionalKeyboard, optionalChatId, optionalMinApiVersion) ==
    LET invalid == sendMessageInvalid(optionalReceiver, messageType, messageData,
                                      optionalKeyboard, optionalChatId)
    IN
    IF invalid # <<>>
    THEN PromiseReject(call, Error(invalid, "client"), "validation")
    ELSE
        LET request0 ==
                Obj([sender |-> Obj([name |-> bot.name, avatar |-> bot.avatar]),
                     tracking_data |-> _serializeTrackingData(optionalTrackingData),
                     keyboard |-> optionalKeyboard,
                     chat_id |-> optionalChatId,
                     min_api_version |-> optionalMinApiVersion])
            request == IF Truthy(optionalReceiver)
                       THEN ObjectAssign(request0, Obj([receiver |-> optionalReceiver]))
                       ELSE request0
        IN  _sendRequest(call, "sendMessage", ObjectAssign(request, messageData))

getAccountInfo(call) == _sendRequest(call, "getAccountInfo", EmptyObject)

getUserDetails(call, viberUserId) ==
    IF ~Truthy(viberUserId)
    THEN Throw(call, Error(<<"Missing user id">>, "client"), "validation")
    ELSE _sendRequest(call, "getUserDetails", Obj([id |-> viberUserId]))

getOnlineStatus(call, viberUserIds0) ==
    LET viberUserIds == IF IsArray(viberUserIds0) THEN viberUserIds0
                        ELSE Arr(<<viberUserIds0>>)
    IN  IF IsEmpty(viberUserIds)
        THEN Throw(call, Error(<<"Empty or no user ids passed to getOnlineStatus">>,
                               "client"), "validation")
        ELSE IF Size(viberUserIds) > MAX_GET_ONLINE_IDS
        THEN Throw(call, Error(<<"Can only check up to ", ToString(MAX_GET_ONLINE_IDS),
                                 " ids per request">>, "client"), "validation")
        ELSE _sendRequest(call, "getOnlineStatus", Obj([ids |-> viberUserIds]))

postToPublicChat(call, senderProfile, messageType, messageData, optionalMinApiVersion) ==
    IF ~Truthy(senderProfile)
    THEN PromiseReject(call,
            Error(<<"Invalid arguments passed to postToPublicChat. ",
                    "'senderProfile' is Missing.">>, "client"),
            "validation")
    ELSE IF ~Truthy(messageType) \/ ~Truthy(messageData)
    THEN PromiseReject(call,
            Error(<<"Invalid arguments passed to postToPublicChat. ",
                    "'MessageData' or 'messageType' are Missing.">>, "client"),
            "validation")
    ELSE
        LET request ==
                Obj([from |-> Prop(senderProfile, "id"),
                     sender |-> Obj([name |-> Prop(senderProfile, "name"),
                                     avatar |-> Prop(senderProfile, "avatar")]),
                     min_api_version |-> optionalMinApiVersion])
        IN  _sendRequest(call, "post", ObjectAssign(request, messageData))

(***************************************************************************)
(* The values the model's callers, transport and environment draw from.    *)
(***************************************************************************)
BotToken == Str(<<"bot-token">>)
OtherToken == Str(<<"other-token">>)

BaseUrl == <<"https:", "//", "chatapi.", "viber.com", "/pa">>

\* a proxy URL with credentials, one without, and a text that is no URL
ProxyWithCredentials == Str(<<"http:", "//", "user", ":", "pw", "@", "proxy.example", ":", "8080">>)
SecureProxy == Str(<<"https:", "//", "secure.example", ":", "3128">>)
NotAUrl == Str(<<"proxy.example">>)

HttpProxyValues == {Undefined, Str(<<>>), ProxyWithCredentials, NotAUrl}
HttpsProxyValues == {Undefined, SecureProxy}
NoProxyValues ==
    {Undefined, Str(<<>>), Str(<<"other.test">>),
     Str(<<"chatapi.", "viber.com", ",", "other.test">>), Str(<<"other.test", ",">>)}

NoEnv == [HTTP_PROXY |-> Undefined, HTTPS_PROXY |-> Undefined, NO_PROXY |-> Undefined]

\* operation names: the keys of the table, an inherited property, a stranger
OperationNames == (DOMAIN API_ENDPOINTS) \cup {"toString", "sendmessage"}

TextMessage == Obj([type |-> Str(<<"text">>), text |-> Str(<<"hi">>)])

Receivers == {Undefined, Str(<<"u1">>)}
MessageTypes == {Undefined, Str(<<"text">>)}
MessageDatas == {Undefined, TextMessage, Obj([text |-> Str(<<"hi">>), tracking_data |-> Null])}
TrackingDatas ==
    {Undefined, Null, EmptyObject, Obj([a |-> Str(<<"x">>)]),
     Obj([a |-> Str(<<"x">>), b |-> Obj([a |-> Null])])}
Keyboards == {Undefined, Obj([Type |-> Str(<<"keyboard">>)])}
ChatIds == {Undefined, Str(<<"c1">>)}
MinApiVersions == {Undefined, Num(2)}
SenderProfiles == {Undefined, Obj([id |-> Str(<<"s1">>), name |-> Str(<<"sender">>), avatar |-> Undefined])}
UserIds == {Undefined, Null, Str(<<>>), Str(<<"u1">>)}

\* the list of n user ids u1 .. un
IdList(n) == Arr([i \in 1..n |-> Str(<<"u", ToString(i)>>)])
IdCounts == {0, 1, 2, MAX_GET_ONLINE_IDS - 1, MAX_GET_ONLINE_IDS, MAX_GET_ONLINE_IDS + 1}
OnlineStatusInputs == {IdList(n) : n \in IdCounts} \cup {Undefined, Str(<<"u1">>)}

DispatchNames == {"post", "toString"}
DispatchPayloads == {EmptyObject, Obj([id |-> Str(<<"u1">>), auth_token |-> OtherToken])}

StatusCodes == {200, 201, 400}
ResponseBodies == {Obj([status |-> Num(0)]), Obj([status |-> Num(2), status_message |-> Str(<<"fail">>)])}
TransportErrors == {Error(<<"ETIMEDOUT">>, "transport"), Error(<<"Response error">>, "transport")}

(***************************************************************************)
(* Actions: a call of a method in a free slot, the transport's answer to a *)
(* request in flight, and a change of the process environment.             *)
(***************************************************************************)
Free(c) == calls[c].st # "pending"

Returns(c, call) ==
    /\ calls' = [calls EXCEPT ![c] = call]
    /\ UNCHANGED <<bot, url, subscribedEvents, userAgent, endpoints, env>>

CallSetWebhook(c, webhookUrl, isInline) ==
    /\ Free(c)
    /\ Returns(c, setWebhook(NewCall("setWebhook", <<webhookUrl, isInline>>), webhookUrl, isInline))

CallSendMessage(c, receiver, type, data, tracking, keyboard, chatId, minApi) ==
    /\ Free(c)
    /\ Returns(c, sendMessage(NewCall("sendMessage", <<receiver, type, data, tracking, keyboard, chatId, minApi>>),
                              receiver, type, data, tracking, keyboard, chatId, minApi))

CallGetAccountInfo(c) ==
    /\ Free(c)
    /\ Returns(c, getAccountInfo(NewCall("getAccountInfo", <<>>)))

CallGetUserDetails(c, id) ==
    /\ Free(c)
    /\ Returns(c, getUserDetails(NewCall("getUserDetails", <<id>>), id))

CallGetOnlineStatus(c, ids) ==
    /\ Free(c)
    /\ Returns(c, getOnlineStatus(NewCall("getOnlineStatus", <<ids>>), ids))

CallPostToPublicChat(c, senderProfile, type, data, minApi) ==
    /\ Free(c)
    /\ Returns(c, postToPublicChat(NewCall("postToPublicChat", <<senderProfile, type, data, minApi>>),
                                   senderProfile, type, data, minApi))

CallSendRequest(c, endpoint, data) ==
    /\ Free(c)
    /\ Returns(c, _sendRequest(NewCall("_sendRequest", <<endpoint, data>>), endpoint, data))

\* one settlement shared by every call in flight
GotFulfilledShared(c, statusCode, body) ==
    /\ calls[c].posts > 0
    /\ calls[c].response = Undefined
    /\ calls' = [d \in DOMAIN calls |->
                    IF calls[d].st = "pending"
                    THEN OnFulfilled([calls[d] EXCEPT !.response =
                                         [kind |-> "response", statusCode |-> statusCode,
                                          body |-> body]],
                                     statusCode, body)
                    ELSE calls[d]]
    /\ UNCHANGED <<bot, url, subscribedEvents, userAgent, endpoints, env>>

\* got.post's promise is fulfilled: the .then callback runs
GotFulfilled(c, statusCode, body) ==
    /\ calls[c].posts > 0
    /\ calls[c].response = Undefined
    /\ Returns(c, OnFulfilled([calls[c] EXCEPT !.response =
                                   [kind |-> "response", statusCode |-> statusCode, body |-> body]],
                              statusCode, body))

\* got.post's promise is rejected: the .catch callback runs
GotRejected(c, e) ==
    /\ calls[c].posts > 0
    /\ calls[c].response = Undefined
    /\ Returns(c, OnRejected([calls[c] EXCEPT !.response = [kind |-> "error", error |-> e]], e))

\* process.env[name] = value, or delete process.env[name]
SetEnv(name, value) ==
    /\ env[name] # value
    /\ env' = [env EXCEPT ![name] = value]
    /\ UNCHANGED <<bot, url, subscribedEvents, userAgent, endpoints, calls>>

(***************************************************************************)
(* The client after construction, lines 21-27.                             *)
(***************************************************************************)
ViberClient ==
    /\ bot = [name |-> Str(<<"bot">>), avatar |-> Str(<<"avatar.png">>), authToken |-> BotToken]
    /\ url = BaseUrl
    /\ subscribedEvents = Arr(<<Str(<<"message">>)>>)
    /\ userAgent = Str(Format2(<<"ViberBot-Node/">>, <<"1.0.1">>))
    /\ endpoints = API_ENDPOINTS

(***************************************************************************)
(* Spec: the dispatcher under concurrent calls.                            *)
(***************************************************************************)
Init ==
    /\ ViberClient
    /\ env = NoEnv
    /\ calls = [c \in 1..MaxCalls |-> NoCall]

Next ==
    \/ \E c \in DOMAIN calls, endpoint \in DispatchNames, data \in DispatchPayloads :
           CallSendRequest(c, endpoint, data)
    \/ \E c \in DOMAIN calls, statusCode \in StatusCodes, body \in ResponseBodies :
           GotFulfilled(c, statusCode, body)
    \/ \E c \in DOMAIN calls, e \in TransportErrors : GotRejected(c, e)
    \/ \E value \in {Undefined, ProxyWithCredentials} : SetEnv("HTTP_PROXY", value)

Spec == Init /\ [][Next]_vars

(***************************************************************************)
(* SpecApi: the API surface with every method, no proxy configured.        *)
(***************************************************************************)
InitApi ==
    /\ ViberClient
    /\ env = NoEnv
    /\ calls = [c \in 1..MaxApiCalls |-> NoCall]

NextApi ==
    \/ \E c \in DOMAIN calls : CallSetWebhook(c, Str(<<"https:", "//", "hook.test">>), True)
    \/ \E c \in DOMAIN calls, receiver \in Receivers, type \in MessageTypes,
          data \in {Undefined, TextMessage}, keyboard \in Keyboards, chatId \in ChatIds :
           CallSendMessage(c, receiver, type, data, Undefined, keyboard, chatId, Undefined)
    \/ \E c \in DOMAIN calls : CallGetAccountInfo(c)
    \/ \E c \in DOMAIN calls, id \in UserIds : CallGetUserDetails(c, id)
    \/ \E c \in DOMAIN calls, ids \in OnlineStatusInputs : CallGetOnlineStatus(c, ids)
    \/ \E c \in DOMAIN calls, senderProfile \in SenderProfiles, type \in MessageTypes,
          data \in {Undefined, TextMessage} :
           CallPostToPublicChat(c, senderProfile, type, data, Num(2))
    \/ \E c \in DOMAIN calls, endpoint \in OperationNames :
           CallSendRequest(c, endpoint, EmptyObject)
    \/ \E c \in DOMAIN calls : GotFulfilled(c, 200, Obj([status |-> Num(0)]))
    \/ \E c \in DOMAIN calls : GotRejected(c, Error(<<"ETIMEDOUT">>, "transport"))

SpecApi == InitApi /\ [][NextApi]_vars

(***************************************************************************)
(* SpecMessage: sendMessage with every kind of tracking data and message   *)
(* data.                                                                   *)
(***************************************************************************)
NextMessage ==
    \/ \E c \in DOMAIN calls, type \in MessageTypes, data \in MessageDatas,
          tracking \in TrackingDatas, keyboard \in Keyboards, minApi \in MinApiVersions :
           CallSendMessage(c, Str(<<"u1">>), type, data, tracking, keyboard, Undefined, minApi)
    \/ \E c \in DOMAIN calls : GotFulfilled(c, 200, Obj([status |-> Num(0)]))

SpecMessage == InitApi /\ [][NextMessage]_vars

(***************************************************************************)
(* SpecProxy: one dispatch after another while the environment changes.    *)
(***************************************************************************)
InitProxy ==
    /\ ViberClient
    /\ env \in [HTTP_PROXY : {Undefined, ProxyWithCredentials},
                HTTPS_PROXY : {Undefined}, NO_PROXY : {Undefined}]
    /\ calls = [c \in 1..MaxApiCalls |-> NoCall]

NextProxy ==
    \/ \E c \in DOMAIN calls : CallSendRequest(c, "getAccountInfo", EmptyObject)
    \/ \E c \in DOMAIN calls : GotFulfilled(c, 200, Obj([status |-> Num(0)]))
    \/ \E value \in HttpProxyValues : SetEnv("HTTP_PROXY", value)
    \/ \E value \in HttpsProxyValues : SetEnv("HTTPS_PROXY", value)
    \/ \E value \in NoProxyValues : SetEnv("NO_PROXY", value)

SpecProxy == InitProxy /\ [][NextProxy]_vars

(***************************************************************************)
(* The claims.                                                             *)
(***************************************************************************)
\* the call got past the endpoint check of _sendRequest
PassedEndpointCheck(k) == k.delegated /\ k.phase \in {"proxy", "transport"}

\* the call's request was handed to the transport
ReachedTransport(k) == k.posts > 0

\* C1 (as claimed): every request body handed to the transport carries
\* auth_token equal to the bot's token, whatever the payload holds.
C1_AuthTokenNotOverridable ==
    \A c \in DOMAIN calls :
        ReachedTransport(calls[c]) =>
            calls[c].options.json.o.auth_token = bot.authToken

\* C2: status 200 resolves the call with exactly the response body; any other
\* status rejects it with the generic 'Response error' whatever the body; a
\* transport exception rejects it with that very exception.
C2_OutcomeNormalization ==
    \A c \in DOMAIN calls :
        LET k == calls[c]
        IN  k.response # Undefined =>
                IF k.response.kind = "error"
                THEN k.st = "rejected" /\ k.err = k.response.error /\ k.value = Undefined
                ELSE IF k.response.statusCode = 200
                THEN k.st = "resolved" /\ k.value = k.response.body /\ k.err = Undefined
                ELSE /\ k.st = "rejected"
                     /\ k.err = [t |-> "error", message |-> <<"Response error">>,
                                 origin |-> "client"]
                     /\ k.value = Undefined

\* a call answered with a status other than 200, and one answered by an exception
C2_Witness ==
    \E c, d \in DOMAIN calls :
        /\ calls[c].response # Undefined /\ calls[c].response.kind = "response"
        /\ calls[c].response.statusCode = 201 /\ calls[c].st = "rejected"
        /\ calls[d].response # Undefined /\ calls[d].response.kind = "error"
        /\ calls[d].st = "rejected"

\* the names the endpoint table holds, as the claim lists them
TableKeys == {"setWebhook", "getAccountInfo", "getUserDetails", "getOnlineStatus", "sendMessage", "post"}

\* the path suffix of each key
EndpointPaths ==
    [setWebhook |-> <<"/set_webhook">>, getAccountInfo |-> <<"/get_account_info">>,
     getUserDetails |-> <<"/get_user_details">>, getOnlineStatus |-> <<"/get_online">>,
     sendMessage |-> <<"/send_message">>, post |-> <<"/post">>]

\* C3: an operation name that is no key of the endpoint table gets a rejected
\* promise and the transport is never invoked; for a key, the request URL is
\* the base URL followed by that key's path suffix.
C3_EndpointResolution ==
    \A c \in DOMAIN calls :
        LET k == calls[c]
        IN  k.delegated =>
                IF k.op \notin TableKeys
                THEN /\ k.st = "rejected" /\ k.phase = "endpoint"
                     /\ k.posts = 0 /\ k.options = Undefined /\ k.response = Undefined
                ELSE /\ PassedEndpointCheck(k)
                     /\ ReachedTransport(k) => k.options.url = BaseUrl \o EndpointPaths[k.op]

\* _sendRequest was called with an inherited property's name and rejected
C3_Witness ==
    \E c \in DOMAIN calls :
        calls[c].delegated /\ calls[c].op = "toString" /\ calls[c].st = "rejected"

\* an environment variable that is set, to a text that is not empty
IsSet(v) == v # Undefined /\ v.s # <<>>

\* sub occurs in text
IsSubstring(sub, text) ==
    \E i \in 0..Len(text) : \E j \in i..Len(text) : SubSeq(text, i + 1, j) = sub

\* the elements of a comma-separated list: the runs of text from one comma,
\* or the start, to the next comma, or the end
ListElements(text) ==
    {SubSeq(text, r[1] + 1, r[2]) :
        r \in {q \in (0..Len(text)) \X (0..Len(text)) :
                  /\ q[1] <= q[2]
                  /\ q[1] = 0 \/ text[q[1]] = ","
                  /\ q[2] = Len(text) \/ text[q[2] + 1] = ","
                  /\ \A p \in (q[1] + 1)..q[2] : text[p] # ","}}

\* the proxy the environment e names for a request to target: the proxy
\* variable in force, and whether the bypass list lets the request through
ProxyInForce(e) == IF IsSet(e.HTTP_PROXY) THEN e.HTTP_PROXY ELSE e.HTTPS_PROXY

MustProxy(e, target) ==
    /\ IsSet(ProxyInForce(e))
    /\ ~(IsSet(e.NO_PROXY) /\ \E el \in ListElements(e.NO_PROXY.s) : IsSubstring(el, target))

\* protocol, hostname and port of the two proxy URLs, as written in them
ProxyParameters(proxy) ==
    IF proxy = ProxyWithCredentials
    THEN [protocol |-> Str(<<"http:">>), hostname |-> Str(<<"proxy.example">>),
          port |-> Str(<<"8080">>), username |-> Null, password |-> Null]
    ELSE [protocol |-> Str(<<"https:">>), hostname |-> Str(<<"secure.example">>),
          port |-> Str(<<"3128">>), username |-> Null, password |-> Null]

\* the call took the proxy branch of _sendRequest: it built, or set out to
\* build, the proxy agents
TookProxyBranch(k) ==
    k.phase = "proxy" \/ (ReachedTransport(k) /\ k.options.agent # Undefined)

Absent(v) == v = Undefined

\* C5: sendMessage returns a rejected promise exactly when receiver and
\* chatId are both absent, or type is given without data, or type, data and
\* keyboard are all absent; otherwise it delegates to the dispatcher under
\* the name sendMessage.
C5_SendMessageValidation ==
    \A c \in DOMAIN calls :
        LET k == calls[c]
            receiver == k.args[1]
            type == k.args[2]
            data == k.args[3]
            keyboard == k.args[5]
            chatId == k.args[6]
            invalid == \/ Absent(receiver) /\ Absent(chatId)
                       \/ ~Absent(type) /\ Absent(data)
                       \/ Absent(type) /\ Absent(data) /\ Absent(keyboard)
        IN  k.method = "sendMessage" =>
                /\ k.st # "threw"
                /\ invalid <=> (k.st = "rejected" /\ k.phase = "validation")
                /\ invalid => ~k.delegated /\ k.posts = 0
                /\ ~invalid => k.delegated /\ k.op = "sendMessage"

\* chatId and data given, no receiver: the call went to the dispatcher
C5_Witness ==
    \E c \in DOMAIN calls :
        /\ calls[c].method = "sendMessage"
        /\ Absent(calls[c].args[1]) /\ ~Absent(calls[c].args[3]) /\ ~Absent(calls[c].args[6])
        /\ calls[c].delegated /\ calls[c].op = "sendMessage" /\ ReachedTransport(calls[c])

\* the number of ids an input of getOnlineStatus holds
IdCount(input) ==
    IF input.t = "array" THEN Len(input.a)
    ELSE IF input.t \in {"undefined", "null"} THEN 0
    ELSE 1

\* C6 (as claimed): getOnlineStatus throws and dispatches nothing for an
\* input with no ids and for more than 100 ids; 1 to 100 ids are delegated as
\* that same list, a single id as the list of that id.
C6_OnlineStatusBounds ==
    \A c \in DOMAIN calls :
        LET k == calls[c]
            input == k.args[1]
        IN  k.method = "getOnlineStatus" =>
                IF IdCount(input) = 0 \/ IdCount(input) > 100
                THEN k.st = "threw" /\ ~k.delegated /\ k.posts = 0
                ELSE /\ k.delegated /\ k.op = "getOnlineStatus"
                     /\ k.payload.o.ids = IF input.t = "array" THEN input
                                          ELSE [t |-> "array", a |-> <<input>>]

\* C7 (as claimed): in every sendMessage request handed to the transport the
\* body's tracking_data is not null; null, undefined and {} go out as the
\* JSON text of the empty string, a non-empty object as its JSON text, which
\* parses back to the object.
C7_TrackingDataOnTheWire ==
    \A c \in DOMAIN calls :
        LET k == calls[c]
            tracking == k.args[4]
            sent == k.options.json.o.tracking_data
        IN  (k.method = "sendMessage" /\ ReachedTransport(k)) =>
                /\ sent # Null
                /\ sent.t = "string"
                /\ tracking \in {Null, Undefined, EmptyObject} => sent.s = <<Quote, Quote>>
                /\ tracking \notin {Null, Undefined, EmptyObject} =>
                       JSONParse(sent.s) = tracking

\* C8: a call whose argument validation fails never reaches the dispatcher
\* or the transport; the failure is a rejected promise for sendMessage and
\* postToPublicChat and a synchronous throw for getUserDetails and
\* getOnlineStatus; postToPublicChat fails exactly when senderProfile, type
\* or data is missing, getUserDetails exactly when the user id is falsy.
C8_ValidationErrorChannel ==
    \A c \in DOMAIN calls :
        LET k == calls[c]
            failed == k.phase = "validation"
        IN  /\ failed => /\ ~k.delegated /\ k.posts = 0 /\ k.options = Undefined
                         /\ k.response = Undefined
                         /\ k.method \in {"sendMessage", "postToPublicChat"} =>
                                k.st = "rejected"
                         /\ k.method \in {"getUserDetails", "getOnlineStatus"} =>
                                k.st = "threw"
            /\ k.st = "threw" => failed /\ k.method \in {"getUserDetails", "getOnlineStatus"}
            /\ k.method = "postToPublicChat" =>
                   (failed <=> (Absent(k.args[1]) \/ Absent(k.args[2]) \/ Absent(k.args[3])))
            /\ k.method = "getUserDetails" =>
                   (failed <=> k.args[1] \in {Undefined, Null, [t |-> "string", s |-> <<>>]})

\* getUserDetails threw on an empty user id
C8_Witness ==
    \E c \in DOMAIN calls :
        /\ calls[c].method = "getUserDetails" /\ calls[c].args[1] = Str(<<>>)
        /\ calls[c].st = "threw" /\ calls[c].posts = 0

\* C9 (as claimed): a dispatch that passes the endpoint check issues exactly
\* one POST, and its promise is settled once and only after the transport
\* has answered.
C9_SingleAttempt ==
    \A c \in DOMAIN calls :
        LET k == calls[c]
        IN  PassedEndpointCheck(k) =>
                /\ k.posts = 1
                /\ k.st \in {"pending", "resolved", "rejected"}
                /\ k.st = "pending" <=> k.response = Undefined
                /\ k.st # "pending" => k.settles = 1

\* the outcome the transport's answer r earns
Outcome(r) ==
    IF r.kind = "error" THEN <<"rejected", Undefined, r.error>>
    ELSE IF r.statusCode = 200 THEN <<"resolved", r.body, Undefined>>
    ELSE <<"rejected", Undefined, Error(<<"Response error">>, "client")>>

\* C10: with several dispatches in flight, in whatever order the transport
\* answers, a step changes one call only; the call that is answered keeps its
\* envelope and gets the outcome of its own answer; a new call's envelope is
\* made of its own payload and the bot identity; the bot identity, the base
\* URL and the endpoint table never change.
C10_Independence ==
    [][/\ bot' = bot /\ url' = url /\ endpoints' = endpoints
       /\ \A c, d \in DOMAIN calls :
              (c # d /\ calls'[c] # calls[c]) => calls'[d] = calls[d]
       /\ \A c \in DOMAIN calls :
              (calls[c].st = "pending" /\ calls'[c] # calls[c]) =>
                  /\ calls'[c].options = calls[c].options
                  /\ calls'[c].payload = calls[c].payload
                  /\ calls'[c].response # Undefined
                  /\ <<calls'[c].st, calls'[c].value, calls'[c].err>>
                         = Outcome(calls'[c].response)
       /\ \A c \in DOMAIN calls :
              (calls[c].st # "pending" /\ calls'[c] # calls[c]
                  /\ ReachedTransport(calls'[c])) =>
                  /\ calls'[c].payload = calls'[c].args[2]
                  /\ calls'[c].options.url = BaseUrl \o EndpointPaths[calls'[c].op]
                  /\ calls'[c].options.json
                         = ObjectAssign(Obj([auth_token |-> BotToken]), calls'[c].payload)
      ]_vars

\* two calls with different payloads in flight, the later slot answered first
C10_Witness ==
    \E c, d \in DOMAIN calls :
        /\ c < d
        /\ calls[c].st = "pending" /\ calls[d].st = "resolved"
        /\ calls[c].payload # calls[d].payload

=============================================================================
